---- MODULE Spec2Model ----
(***************************************************************************)
(* image-grabber (src/main.go): main's img[src] crawl, DownloadFile,       *)
(* WriteCounter and getFileName.                                           *)
(*                                                                         *)
(* Text is a sequence of one-character strings.  A directory is a function *)
(* from the names of the files it holds to their contents (sequences of    *)
(* bytes).                                                                 *)
(***************************************************************************)
EXTENDS Integers, Sequences, FiniteSets, TLC

\* ------------------------------------------------------------ bounds
\* most img elements on the crawled page
MaxBatch == 2
\* longest response body, in bytes
MaxBody == 2
\* longest URL text explored by the name-derivation specification
MaxUrlLen == 3

\* ------------------------------------------------------------ text helpers

\* strings.HasPrefix
HasPrefix(s, p) == Len(s) >= Len(p) /\ SubSeq(s, 1, Len(p)) = p

\* strings.Index for a one-character separator, 1-based; 0 when absent
RECURSIVE IndexFrom(_, _, _)
IndexFrom(s, c, i) ==
  IF i > Len(s) THEN 0
  ELSE IF s[i] = c THEN i
  ELSE IndexFrom(s, c, i + 1)

Index(s, c) == IndexFrom(s, c, 1)

\* strings.LastIndex for a one-character separator, 1-based; 0 when absent
RECURSIVE LastIndexFrom(_, _, _)
LastIndexFrom(s, c, i) ==
  IF i < 1 THEN 0
  ELSE IF s[i] = c THEN i
  ELSE LastIndexFrom(s, c, i - 1)

LastIndex(s, c) == LastIndexFrom(s, c, Len(s))

\* strings.Count for a one-character separator
Count(s, c) == Cardinality({i \in 1..Len(s) : s[i] = c})

\* strings.Cut: the text before and after the first c
Cut(s, c) ==
  LET i == Index(s, c)
  IN IF i = 0 THEN [before |-> s, after |-> <<>>, found |-> FALSE]
     ELSE [before |-> SubSeq(s, 1, i - 1),
           after  |-> SubSeq(s, i + 1, Len(s)),
           found  |-> TRUE]

\* strings.Split(s, sep) for a one-character separator: always at least one
\* segment, the segments between consecutive separators
RECURSIVE Split(_, _)
Split(s, c) ==
  LET i == Index(s, c)
  IN IF i = 0 THEN <<s>>
     ELSE <<SubSeq(s, 1, i - 1)>> \o Split(SubSeq(s, i + 1, Len(s)), c)

\* ------------------------------------------------------------ net/url

AlphaChars == {"a", "b", "d", "h", "m", "p", "t", "F"}
DigitChars == {"2"}
HexChars == {"2", "a", "b", "d", "F"}

\* net/url unhex
unhex(c) ==
  CASE c = "2" -> 2
    [] c = "a" -> 10
    [] c = "b" -> 11
    [] c = "d" -> 13
    [] c = "F" -> 15

\* the character with byte value v
ByteChar(v) ==
  CASE v = 47 -> "/"
    [] v = 34 -> "\""
    [] v = 42 -> "*"
    [] v = 43 -> "+"
    [] v = 45 -> "-"
    [] OTHER -> ToString(v)

\* net/url getScheme: [err, scheme, rest]
RECURSIVE getSchemeFrom(_, _)
getSchemeFrom(rawURL, i) ==
  IF i > Len(rawURL) THEN [err |-> FALSE, scheme |-> <<>>, rest |-> rawURL]
  ELSE LET c == rawURL[i]
       IN IF c \in AlphaChars THEN getSchemeFrom(rawURL, i + 1)
          ELSE IF c \in DigitChars \cup {"+", "-", "."} THEN
            IF i = 1 THEN [err |-> FALSE, scheme |-> <<>>, rest |-> rawURL]
            ELSE getSchemeFrom(rawURL, i + 1)
          ELSE IF c = ":" THEN
            IF i = 1 THEN [err |-> TRUE, scheme |-> <<>>, rest |-> <<>>]
            ELSE [err |-> FALSE,
                  scheme |-> SubSeq(rawURL, 1, i - 1),
                  rest |-> SubSeq(rawURL, i + 1, Len(rawURL))]
          ELSE [err |-> FALSE, scheme |-> <<>>, rest |-> rawURL]

getScheme(rawURL) == getSchemeFrom(rawURL, 1)

\* net/url unescape: [err, text].  In host mode an escape may only encode a
\* non-ASCII byte (or be %25, not in the alphabet).
RECURSIVE unescapeFrom(_, _, _)
unescapeFrom(s, i, host) ==
  IF i > Len(s) THEN [err |-> FALSE, text |-> <<>>]
  ELSE IF s[i] = "%" THEN
    IF i + 2 > Len(s) \/ s[i + 1] \notin HexChars \/ s[i + 2] \notin HexChars
    THEN [err |-> TRUE, text |-> <<>>]
    ELSE IF host /\ unhex(s[i + 1]) < 8 THEN [err |-> TRUE, text |-> <<>>]
    ELSE LET tail == unescapeFrom(s, i + 3, host)
         IN [err |-> tail.err,
             text |-> <<ByteChar(16 * unhex(s[i + 1]) + unhex(s[i + 2]))>>
                      \o tail.text]
  ELSE LET tail == unescapeFrom(s, i + 1, host)
       IN [err |-> tail.err, text |-> <<s[i]>> \o tail.text]

unescape(s, host) == unescapeFrom(s, 1, host)

\* net/url validOptionalPort
validOptionalPort(port) ==
  \/ port = <<>>
  \/ /\ port[1] = ":"
     /\ \A i \in 2..Len(port) : port[i] \in DigitChars

\* net/url parseHost (no IPv6 literal, no userinfo: "[" and "@" are not in
\* the alphabet): [err, host]
parseHost(host) ==
  LET i == LastIndex(host, ":")
  IN IF i # 0 /\ ~validOptionalPort(SubSeq(host, i, Len(host)))
     THEN [err |-> TRUE, text |-> <<>>]
     ELSE unescape(host, TRUE)

NoURL == [err |-> TRUE, Scheme |-> <<>>, Opaque |-> <<>>, Host |-> <<>>,
          Path |-> <<>>, RawQuery |-> <<>>]

\* net/url parse(rawURL, viaRequest = false), on the text before any '#'
parse(rawURL) ==
  LET sch == getScheme(rawURL)
      q == IF sch.rest # <<>> /\ sch.rest[Len(sch.rest)] = "?"
              /\ Count(sch.rest, "?") = 1
           THEN [before |-> SubSeq(sch.rest, 1, Len(sch.rest) - 1),
                 after |-> <<>>]
           ELSE Cut(sch.rest, "?")
      rest == q.before
      hasAuthority ==
        /\ sch.scheme # <<>> \/ ~HasPrefix(rest, <<"/", "/", "/">>)
        /\ HasPrefix(rest, <<"/", "/">>)
      afterSlashes == SubSeq(rest, 3, Len(rest))
      k == Index(afterSlashes, "/")
      authority == IF k = 0 THEN afterSlashes
                   ELSE SubSeq(afterSlashes, 1, k - 1)
      pathText == IF ~hasAuthority THEN rest
                  ELSE IF k = 0 THEN <<>>
                  ELSE SubSeq(afterSlashes, k, Len(afterSlashes))
      host == IF hasAuthority THEN parseHost(authority)
              ELSE [err |-> FALSE, text |-> <<>>]
      path == unescape(pathText, FALSE)
  IN IF sch.err THEN NoURL
     ELSE IF ~HasPrefix(rest, <<"/">>) /\ sch.scheme # <<>> THEN
       \* a rootless path after a scheme is opaque; Path stays empty
       [err |-> FALSE, Scheme |-> sch.scheme, Opaque |-> rest,
        Host |-> <<>>, Path |-> <<>>, RawQuery |-> q.after]
     ELSE IF ~HasPrefix(rest, <<"/">>)
             /\ Index(Cut(rest, "/").before, ":") # 0 THEN
       \* first path segment in URL cannot contain colon
       NoURL
     ELSE IF host.err \/ path.err THEN NoURL
     ELSE [err |-> FALSE, Scheme |-> sch.scheme, Opaque |-> <<>>,
           Host |-> host.text, Path |-> path.text, RawQuery |-> q.after]

\* url.Parse: cut off the fragment, parse the rest, validate the fragment
urlParse(rawURL) ==
  LET c == Cut(rawURL, "#")
      u == parse(c.before)
  IN IF u.err THEN NoURL
     ELSE IF unescape(c.after, FALSE).err THEN NoURL
     ELSE u

\* ------------------------------------------------------------ getFileName

\* a getFileName that returns the first segment
getFileNameFirst(fullUrlFile) ==
  LET fileUrl == urlParse(fullUrlFile)
      segments == Split(fileUrl.Path, "/")
  IN IF fileUrl.err THEN [panic |-> TRUE, name |-> <<>>]
     ELSE [panic |-> FALSE, name |-> segments[1]]

\* a getFileName that drops url.Parse's error and goes on with an empty Path
getFileNameNoPanic(fullUrlFile) ==
  LET fileUrl == urlParse(fullUrlFile)
      segments == Split(fileUrl.Path, "/")
  IN [panic |-> FALSE, name |-> segments[Len(segments)]]

\* getFileName: [panic, name].  A parse error panics; otherwise the last
\* element of strings.Split(fileUrl.Path, "/").
getFileName(fullUrlFile) ==
  LET fileUrl == urlParse(fullUrlFile)
      segments == Split(fileUrl.Path, "/")
  IN IF fileUrl.err THEN [panic |-> TRUE, name |-> <<>>]
     ELSE [panic |-> FALSE, name |-> segments[Len(segments)]]

\* ------------------------------------------------------------ file system

TmpSuffix == <<".", "t", "m", "p">>

\* the staging path DownloadFile creates: dir + "/" + fileName + ".tmp"
StagingNameBare(fileName) == fileName

StagingName(fileName) == fileName \o TmpSuffix

\* the path DownloadFile renames to: dir + "/" + fileName
FinalName(fileName) == fileName

\* the directory holding no file
EmptyDir == [n \in {} |-> <<>>]

\* os.Create without O_TRUNC, appending: an existing file keeps its contents
osCreateKeep(d, name) ==
  [n \in DOMAIN d \cup {name} |-> IF n \in DOMAIN d THEN d[n] ELSE <<>>]

\* os.Create on success: the file exists and is empty (O_CREATE|O_TRUNC)
osCreate(d, name) ==
  [n \in DOMAIN d \cup {name} |-> IF n = name THEN <<>> ELSE d[n]]

\* out.Write on success: the bytes are appended to the open file
osWrite(d, name, bytes) ==
  [n \in DOMAIN d |-> IF n = name THEN d[n] \o bytes ELSE d[n]]

\* a rename that does not replace an existing target
osRenameKeep(d, old, new) ==
  [n \in (DOMAIN d \ {old}) \cup {new} |->
     IF n = new /\ new \notin DOMAIN d THEN d[old] ELSE d[n]]

\* os.Rename on success: new holds what old held, old is gone
osRename(d, old, new) ==
  [n \in (DOMAIN d \ {old}) \cup {new} |-> IF n = new THEN d[old] ELSE d[n]]

\* ------------------------------------------------------------ WriteCounter

\* a counter that stores the last chunk's length
WriteCounterAssign(total, n) == n

\* WriteCounter.Write: wc.Total += uint64(n)
WriteCounterWrite(total, n) == total + n

\* ------------------------------------------------------------ inputs

Http == <<"h", "t", "t", "p">>
Https == <<"h", "t", "t", "p", "s">>
HostPrefix == Http \o <<":", "/", "/", "h">>

\* the img src values of the crawled page
UrlA == HostPrefix \o <<"/", "a">>
UrlATmp == HostPrefix \o <<"/", "a">> \o TmpSuffix
UrlDir == HostPrefix \o <<"/", "d", "/">>
UrlBad == HostPrefix \o <<"/", "%">>
Urls == {UrlA, UrlATmp, UrlDir, UrlBad}

Batches == UNION {[1..n -> Urls] : n \in 0..MaxBatch}

Byte == {1, 2}
Bodies == UNION {[1..n -> Byte] : n \in 0..MaxBody}

\* what the directory may hold before the run: an earlier run's final file
\* a, and a.tmp (an earlier run's final file or leftover staging file)
OldContent == <<2>>
InitNames == {<<"a">>, <<"a">> \o TmpSuffix}
InitDirs == {[n \in S |-> OldContent] : S \in SUBSET InitNames}

\* the texts the name-derivation specification explores
UrlAlphabet == {"a", "/", "%", "2", "F", ":", "?", "#"}
UrlTails == UNION {[1..n -> UrlAlphabet] : n \in 0..MaxUrlLen}
NameUrls == {p \o t : p \in {<<>>, HostPrefix}, t \in UrlTails}

\* http.Get fails before sending anything unless the scheme is http or
\* https and the host is not empty
CanRequest(rawURL) ==
  LET u == urlParse(rawURL)
  IN ~u.err /\ u.Scheme \in {Http, Https} /\ u.Host # <<>>

\* ------------------------------------------------------------ state

VARIABLES
  dirExists,  \* whether dir exists
  fs,         \* the files of dir: name -> contents
  batch,      \* the img src values, in page order
  idx,        \* how many OnHTML callbacks have started
  pc,         \* main / visit / name / create / get / copy / rename / ret / panic / done
  fileName,   \* DownloadFile's fileName
  err,        \* whether DownloadFile returns a non-nil error
  failedAt,   \* the step that failed: none / parse / create / get / copy / rename
  body,       \* the bytes resp.Body delivers
  nread,      \* how many of them the TeeReader has read
  written,    \* how many of them out.Write has accepted
  Total,      \* counter.Total
  requests,   \* the URLs http.Get was called with, in order
  startFs,    \* fs when the current DownloadFile call started
  startReqs,  \* Len(requests) when the current DownloadFile call started
  committed,  \* final name -> body, for this run's successful renames
  prev        \* the last DownloadFile call that returned nil: its index, body and fs

vars == <<dirExists, fs, batch, idx, pc, fileName, err, failedAt, body, nread,
          written, Total, requests, startFs, startReqs, committed, prev>>

callVars == <<fileName, err, failedAt, body, nread, written, Total>>

NoPrev == [idx |-> 0, body |-> <<>>, fs |-> EmptyDir]

InitWith(b, dirs) ==
  /\ batch = b
  /\ dirExists \in BOOLEAN
  /\ fs \in (IF dirExists THEN dirs ELSE {EmptyDir})
  /\ idx = 0
  /\ pc = "main"
  /\ fileName = <<>>
  /\ err = FALSE
  /\ failedAt = "none"
  /\ body = <<>>
  /\ nread = 0
  /\ written = 0
  /\ Total = 0
  /\ requests = <<>>
  /\ startFs = fs
  /\ startReqs = 0
  /\ committed = EmptyDir
  /\ prev = NoPrev

Init == \E b \in Batches : InitWith(b, InitDirs)

InitName == \E u \in NameUrls : InitWith(<<u>>, {EmptyDir})

\* ------------------------------------------------------------ main

\* main: create the folder if it does not exist; MkdirAll's error is dropped
Mkdir ==
  /\ pc = "main"
  /\ dirExists' \in (IF dirExists THEN {TRUE} ELSE BOOLEAN)
  /\ pc' = "visit"
  /\ UNCHANGED <<fs, batch, idx, callVars, requests, startFs, startReqs,
                 committed, prev>>

\* the img[src] callback starts for the next element and calls DownloadFile
OnHTML ==
  /\ pc = "visit"
  /\ idx < Len(batch)
  /\ idx' = idx + 1
  /\ pc' = "name"
  /\ startFs' = fs
  /\ startReqs' = Len(requests)
  /\ UNCHANGED <<dirExists, fs, batch, callVars, requests, committed, prev>>

\* c.Visit returns after the last element: "Grabbing completed!"
Finish ==
  /\ pc = "visit"
  /\ idx = Len(batch)
  /\ pc' = "done"
  /\ UNCHANGED <<dirExists, fs, batch, idx, callVars, requests, startFs,
                 startReqs, committed, prev>>

\* DownloadFile returns to the callback: panic(err) when err != nil,
\* otherwise the crawl goes on
Return ==
  /\ pc = "ret"
  /\ IF err
     THEN /\ pc' = "panic"
          /\ UNCHANGED <<callVars, prev>>
     ELSE /\ pc' = "visit"
          /\ prev' = [idx |-> idx, body |-> body, fs |-> fs]
          /\ fileName' = <<>> /\ err' = FALSE /\ failedAt' = "none"
          /\ body' = <<>> /\ nread' = 0 /\ written' = 0 /\ Total' = 0
  /\ UNCHANGED <<dirExists, fs, batch, idx, requests, startFs, startReqs,
                 committed>>

\* ------------------------------------------------------------ DownloadFile

\* fileName := getFileName(url); a parse error panics inside getFileName
GetFileNameStep ==
  /\ pc = "name"
  /\ LET r == getFileName(batch[idx])
     IN IF r.panic
        THEN /\ pc' = "panic"
             /\ failedAt' = "parse"
             /\ UNCHANGED fileName
        ELSE /\ pc' = "create"
             /\ fileName' = r.name
             /\ UNCHANGED failedAt
  /\ UNCHANGED <<dirExists, fs, batch, idx, err, body, nread, written, Total,
                 requests, startFs, startReqs, committed, prev>>

\* os.Create(dir + "/" + fileName + ".tmp") succeeds
CreateOk ==
  /\ pc = "create"
  /\ dirExists
  /\ fs' = osCreate(fs, StagingName(fileName))
  /\ pc' = "get"
  /\ UNCHANGED <<dirExists, batch, idx, callVars, requests, startFs,
                 startReqs, committed, prev>>

\* os.Create fails (always when dir does not exist): return err
CreateFail ==
  /\ pc = "create"
  /\ err' = TRUE
  /\ failedAt' = "create"
  /\ pc' = "ret"
  /\ UNCHANGED <<dirExists, fs, batch, idx, fileName, body, nread, written,
                 Total, requests, startFs, startReqs, committed, prev>>

\* http.Get(url) succeeds: a response whose body will deliver b
GetOk ==
  /\ pc = "get"
  /\ CanRequest(batch[idx])
  /\ requests' = Append(requests, batch[idx])
  /\ \E b \in Bodies : body' = b
  /\ pc' = "copy"
  /\ UNCHANGED <<dirExists, fs, batch, idx, fileName, err, failedAt, nread,
                 written, Total, startFs, startReqs, committed, prev>>

\* http.Get(url) fails: return err
GetFail ==
  /\ pc = "get"
  /\ requests' = Append(requests, batch[idx])
  /\ err' = TRUE
  /\ failedAt' = "get"
  /\ pc' = "ret"
  /\ UNCHANGED <<dirExists, fs, batch, idx, fileName, body, nread, written,
                 Total, startFs, startReqs, committed, prev>>

\* one round of io.Copy: the TeeReader reads n bytes and hands them to
\* counter.Write, then out.Write takes all of them, or k < n and fails
CopyChunk ==
  /\ pc = "copy"
  /\ \E n \in 1..(Len(body) - nread) :
       /\ nread' = nread + n
       /\ Total' = WriteCounterWrite(Total, n)
       /\ \E k \in 0..n :
            /\ written' = written + k
            /\ fs' = osWrite(fs, StagingName(fileName),
                             SubSeq(body, nread + 1, nread + k))
            /\ IF k = n
               THEN UNCHANGED <<pc, err, failedAt>>
               ELSE /\ err' = TRUE
                    /\ failedAt' = "copy"
                    /\ pc' = "ret"
  /\ UNCHANGED <<dirExists, batch, idx, fileName, body, requests, startFs,
                 startReqs, committed, prev>>

\* the copy fails and the staging file is renamed all the same
CopyFailRenamed ==
  /\ pc = "copy"
  /\ nread < Len(body)
  /\ fs' = osRename(fs, StagingName(fileName), FinalName(fileName))
  /\ err' = TRUE
  /\ failedAt' = "copy"
  /\ pc' = "ret"
  /\ UNCHANGED <<dirExists, batch, idx, fileName, body, nread, written,
                 Total, requests, startFs, startReqs, committed, prev>>

\* resp.Body fails before its end (the stream breaks): return err
CopyFail ==
  /\ pc = "copy"
  /\ nread < Len(body)
  /\ err' = TRUE
  /\ failedAt' = "copy"
  /\ pc' = "ret"
  /\ UNCHANGED <<dirExists, fs, batch, idx, fileName, body, nread, written,
                 Total, requests, startFs, startReqs, committed, prev>>

\* resp.Body reports EOF: io.Copy returns nil
CopyEOF ==
  /\ pc = "copy"
  /\ nread = Len(body)
  /\ pc' = "rename"
  /\ UNCHANGED <<dirExists, fs, batch, idx, callVars, requests, startFs,
                 startReqs, committed, prev>>

\* os.Rename(staging, final) succeeds; an empty fileName names dir itself,
\* which a file cannot replace
RenameOk ==
  /\ pc = "rename"
  /\ fileName # <<>>
  /\ fs' = osRename(fs, StagingName(fileName), FinalName(fileName))
  /\ committed' = [n \in DOMAIN committed \cup {FinalName(fileName)} |->
                     IF n = FinalName(fileName) THEN body ELSE committed[n]]
  /\ pc' = "ret"
  /\ UNCHANGED <<dirExists, batch, idx, callVars, requests, startFs,
                 startReqs, prev>>

\* os.Rename fails: return err
RenameFail ==
  /\ pc = "rename"
  /\ err' = TRUE
  /\ failedAt' = "rename"
  /\ pc' = "ret"
  /\ UNCHANGED <<dirExists, fs, batch, idx, fileName, body, nread, written,
                 Total, requests, startFs, startReqs, committed, prev>>

Next ==
  \/ Mkdir
  \/ OnHTML
  \/ GetFileNameStep
  \/ CreateOk
  \/ CreateFail
  \/ GetOk
  \/ GetFail
  \/ CopyChunk
  \/ CopyFail
  \/ CopyEOF
  \/ RenameOk
  \/ RenameFail
  \/ Return
  \/ Finish

\* a run over a page of up to MaxBatch images with known URLs
Spec == Init /\ [][Next]_vars

\* a run over a page with one image whose src is any text of NameUrls
SpecName == InitName /\ [][Next]_vars

\* ------------------------------------------------------------ properties

\* DownloadFile has derived fileName and not yet handed control back
InCall == pc \in {"create", "get", "copy", "rename", "ret"}

Staging == StagingName(fileName)
Final == FinalName(fileName)

\* the file n is as it was when the current call started
SameAsAtStart(n) ==
  /\ n \in DOMAIN fs <=> n \in DOMAIN startFs
  /\ n \in DOMAIN fs => fs[n] = startFs[n]

Succeeded == pc = "ret" /\ ~err

\* C1: at every point of a DownloadFile call the file under the final name
\* is as it was when the call started, or (once the call has succeeded)
\* holds the complete fetched body; it never holds part of the body.
C1_FinalNeverPartial ==
  InCall =>
    IF Succeeded
    THEN Final \in DOMAIN fs /\ fs[Final] = body /\ nread = Len(body)
    ELSE SameAsAtStart(Final)

\* C1 witness: mid-copy, part of the body is in the staging file and an
\* earlier final file is in place
C1_Witness ==
  /\ pc = "copy"
  /\ 0 < nread /\ nread < Len(body)
  /\ Final \in DOMAIN fs
  /\ Len(fs[Staging]) = nread

\* C2: when a step of DownloadFile fails, the call returns a non-nil error
\* and the file under the final name is as it was when the call started.
C2_FailureLeavesFinal ==
  (pc = "ret" /\ failedAt # "none") => (err /\ SameAsAtStart(Final))

\* C2 witness: the copy failed after bytes were written, an earlier final
\* file being in place
C2_Witness ==
  /\ pc = "ret"
  /\ failedAt = "copy"
  /\ written > 0
  /\ Final \in DOMAIN startFs

\* C3: whenever DownloadFile returns, with success or with an error from
\* the request, the copy or the rename, no staging file of the transfer
\* remains in the directory.
C3_NoStagingOnReturn ==
  (pc = "ret" /\ failedAt \in {"none", "get", "copy", "rename"}) =>
    Staging \notin DOMAIN fs

\* C4: after a successful DownloadFile, counter.Total is the length of the
\* body and the size of the committed final file.
C4_TotalIsBodyLength ==
  Succeeded => (Total = Len(body) /\ Len(fs[Final]) = Total)

\* C4 witness: a successful transfer of a body of two bytes or more
C4_Witness == Succeeded /\ Total >= 2

\* C5: after a successful DownloadFile the final file holds the fetched
\* body whatever the directory held before, and when the previous
\* successful call was the same transfer with the same body, the directory
\* is as that call left it.
C5_OverwriteIdempotent ==
  Succeeded =>
    /\ fs[Final] = body
    /\ (/\ prev.idx = idx - 1
        /\ prev.idx >= 1
        /\ batch[prev.idx] = batch[idx]
        /\ prev.body = body) => fs = prev.fs

\* C5 witness: success over an earlier final file with other contents and
\* a leftover staging file
C5_Witness ==
  /\ Succeeded
  /\ Final \in DOMAIN startFs
  /\ Staging \in DOMAIN startFs
  /\ startFs[Final] # body
  /\ body # <<>>

\* every transfer that started did so after all earlier ones returned nil
NoStartAfterFailure ==
  /\ pc \in {"visit", "done"} => prev.idx = idx
  /\ (idx >= 1 /\ pc \notin {"main", "visit", "done"}) => prev.idx = idx - 1

\* C6: a failed transfer panics and no transfer starts after it; when the
\* run has panicked, the final files committed by earlier transfers are in
\* the directory as committed.
C6_AbortKeepsCommitted ==
  /\ NoStartAfterFailure
  /\ pc = "panic" =>
       \A n \in DOMAIN committed : n \in DOMAIN fs /\ fs[n] = committed[n]

\* C6, the abort alone: an error returned by DownloadFile panics, and after
\* the panic nothing happens: no staging file is created, no request is
\* issued, no file is committed, and the directory stays as it is.
C6_FailureAbortsBatch ==
  [][/\ (pc = "ret" /\ err) =>
          (pc' = "panic" /\ UNCHANGED <<fs, requests, idx, committed>>)
     /\ pc = "panic" => UNCHANGED vars]_vars

\* the path component of a URL text as RFC 3986 delimits it: after the
\* scheme and the authority, before the query and the fragment
RawPath(rawURL) ==
  LET noFragment == Cut(rawURL, "#").before
      noQuery == Cut(noFragment, "?").before
      sch == getScheme(noQuery)
      hier == IF sch.scheme # <<>> THEN sch.rest ELSE noQuery
      afterSlashes == SubSeq(hier, 3, Len(hier))
      k == Index(afterSlashes, "/")
  IN IF ~HasPrefix(hier, <<"/", "/">>) THEN hier
     ELSE IF k = 0 THEN <<>>
     ELSE SubSeq(afterSlashes, k, Len(afterSlashes))

\* the text after the last '/' of s
AfterLastSlash(s) == SubSeq(s, LastIndex(s, "/") + 1, Len(s))

\* the last '/'-delimited segment of the URL's path component, decoded
RawLastSegment(rawURL) == unescape(AfterLastSlash(RawPath(rawURL)), FALSE).text

\* C7 as stated: for every URL url.Parse accepts, getFileName is the last
\* '/'-delimited segment of the URL's path component (percent-decoded).
C7_RawLastSegment ==
  InCall => fileName = RawLastSegment(batch[idx])

\* C7 as amended: getFileName is the text after the last '/' of the parsed
\* URL's Path, the percent-decoded path of a hierarchical URL (empty when
\* that path is empty or ends in '/'); it is the decoded last segment of the
\* URL's path component when the URL is not opaque and that segment holds
\* no escaped '/'.
C7_DecodedLastSegment ==
  InCall =>
    LET u == urlParse(batch[idx])
    IN /\ ~u.err
       /\ fileName = AfterLastSlash(u.Path)
       /\ Index(fileName, "/") = 0
       /\ (u.Opaque = <<>> /\ Index(RawLastSegment(batch[idx]), "/") = 0) =>
            fileName = RawLastSegment(batch[idx])
       /\ u.Opaque # <<>> => fileName = <<>>

\* C7 witness: a name derived from a path of several segments with scheme,
\* host, and query or fragment present
C7_Witness ==
  /\ InCall
  /\ fileName # <<>>
  /\ HasPrefix(batch[idx], HostPrefix)
  /\ Len(urlParse(batch[idx]).Path) > Len(fileName)
  /\ Index(batch[idx], "?") # 0 \/ Index(batch[idx], "#") # 0

\* C8: a source url.Parse rejects stops the run inside getFileName: no
\* file is created or changed, no request is issued, and no later transfer
\* starts (so every earlier image of the page had a valid source).
C8_ParseErrorFatal ==
  idx >= 1 =>
    /\ \A j \in 1..(idx - 1) : ~urlParse(batch[j]).err
    /\ (urlParse(batch[idx]).err /\ pc # "name") =>
         /\ pc = "panic"
         /\ fs = startFs
         /\ Len(requests) = startReqs

\* C8 witness: the run has panicked on a rejected source with an image of
\* the page left
C8_Witness ==
  /\ pc = "panic"
  /\ failedAt = "parse"
  /\ idx < Len(batch)

\* C9: a final file committed by a transfer of this run keeps its contents
\* until a transfer with the same final name replaces it.
C9_CommittedUntouched ==
  \A n \in DOMAIN committed : n \in DOMAIN fs /\ fs[n] = committed[n]

\* C10: the steps of a call happen in the order create, request, copy,
\* rename, and a failed step prevents the later ones: no request before the
\* staging file exists; after a failed creation no request and no change;
\* after a failed request an empty staging file; after a failed copy a
\* staging file holding the bytes written so far; the final file unchanged
\* in each case.
C10_StepOrder ==
  /\ pc \in {"name", "create"} => (Len(requests) = startReqs /\ fs = startFs)
  /\ pc = "get" =>
       /\ Len(requests) = startReqs
       /\ Staging \in DOMAIN fs /\ fs[Staging] = <<>>
  /\ pc \in {"copy", "rename"} =>
       /\ Len(requests) = startReqs + 1
       /\ Staging \in DOMAIN fs /\ fs[Staging] = SubSeq(body, 1, written)
       /\ SameAsAtStart(Final)
  /\ (pc = "ret" /\ failedAt = "create") =>
       (Len(requests) = startReqs /\ fs = startFs)
  /\ (pc = "ret" /\ failedAt = "get") =>
       /\ Staging \in DOMAIN fs /\ fs[Staging] = <<>>
       /\ Total = 0 /\ written = 0
       /\ SameAsAtStart(Final)
  /\ (pc = "ret" /\ failedAt = "copy") =>
       /\ Staging \in DOMAIN fs /\ fs[Staging] = SubSeq(body, 1, written)
       /\ written <= Total
       /\ SameAsAtStart(Final)

\* C10 witness: the request failed after the creation truncated a leftover
\* staging file
C10_Witness ==
  /\ pc = "ret"
  /\ failedAt = "get"
  /\ Staging \in DOMAIN startFs
  /\ startFs[Staging] # <<>>

====
